---- MODULE Spec2Model ----
(***************************************************************************)
(* Model of cf.py: the correction-factor pipeline.                         *)
(*                                                                         *)
(*   Task 1  calculate_satellite_averages : per-file yearly means          *)
(*   Task 2  read_observed_data           : station id from free text      *)
(*   Task 3  main                         : inner join and ratio           *)
(*   Task 4  main                         : per-station grand mean         *)
(*                                                                         *)
(* Text is a sequence of one-character strings.  Numbers that pandas keeps *)
(* as floats are exact rationals <<n, d>> with d > 0 in lowest terms, so   *)
(* rounding of binary floating point is outside the model.                 *)
(***************************************************************************)
EXTENDS Integers, Sequences, FiniteSets, TLC

VARIABLES
    \* --- identifier extraction, applied to one drawn input
    file_name_string,   \* argument of extract_station_number (a cell of 'File')
    filename,           \* os.path.basename(file_path) of a globbed file
    xpc,                \* "in" before the two extractions ran, "out" after
    free_id,            \* result of extract_station_number
    name_id,            \* station number taken from filename
    name_free_id        \* extract_station_number applied to filename

VARIABLES
    \* --- the run of main()
    pc,                 \* position of the run
    halted,             \* why main returned early, "" while it has not
    written,            \* the output files saved so far
    \* locals of calculate_satellite_averages
    all_files,          \* what glob found, in processing order
    file_index,         \* index of the next file of the loop
    log,                \* one printed outcome per processed file
    all_station_data,   \* the yearly_avg frames appended so far
    final_df,           \* pd.concat(all_station_data)
    \* locals of read_observed_data
    df,                 \* the observed table as read
    \* locals of main
    df_satellite,
    df_observed,
    df_merged,
    df_grand_factor

xvars == <<file_name_string, filename, xpc, free_id, name_id, name_free_id>>
satvars == <<all_files, file_index, log, all_station_data, final_df>>
mainvars == <<df_satellite, df_observed, df_merged, df_grand_factor>>

vars == <<xvars, pc, halted, written, satvars, df, mainvars>>

-----------------------------------------------------------------------------
(* Bounds *)

MaxLen == 7        \* longest free-text cell drawn
MaxStem == 4       \* longest file name drawn, extension not counted
MaxFiles == 2      \* most satellite files in the directory
MaxSatRows == 2    \* most data rows of a satellite file of a whole run
MaxTableRows == 3  \* most data rows of the satellite file averaged on its own
MaxObsRows == 2    \* most rows of the observed table

-----------------------------------------------------------------------------
(* Text *)

Digits == {"0", "6", "8"}
Whitespace == {" "}
Alphabet == Digits \cup Whitespace \cup {"a"}
NameAlphabet == Alphabet \cup {"."}

RECURSIVE StringsUpTo(_, _)
StringsUpTo(n, chars) ==
    IF n = 0 THEN {<<>>}
    ELSE LET shorter == StringsUpTo(n - 1, chars)
         IN  shorter \cup {Append(s, c) : s \in {t \in shorter : Len(t) = n - 1}, c \in chars}

DigitValue(c) == CASE c = "0" -> 0 [] c = "6" -> 6 [] c = "8" -> 8

\* str.strip(): leading and trailing whitespace removed
RECURSIVE lstrip(_)
lstrip(s) == IF s /= <<>> /\ Head(s) \in Whitespace THEN lstrip(Tail(s)) ELSE s

RECURSIVE rstrip(_)
rstrip(s) ==
    IF s /= <<>> /\ s[Len(s)] \in Whitespace THEN rstrip(SubSeq(s, 1, Len(s) - 1)) ELSE s

strip(s) == rstrip(lstrip(s))

\* str.isdigit(): at least one character and every character a digit
isdigit(s) == s /= <<>> /\ \A i \in 1..Len(s) : s[i] \in Digits

\* int(s) of a digit string: base 10, leading zeros carry no value
RECURSIVE int(_)
int(s) == IF s = <<>> THEN 0 ELSE 10 * int(SubSeq(s, 1, Len(s) - 1)) + DigitValue(s[Len(s)])

-----------------------------------------------------------------------------
(* Station identifier extraction *)

\* A cell of a table as read: text, a number, or missing (NaN)
Cell(kind, s, v) == [kind |-> kind, s |-> s, v |-> v]
Text(s) == Cell("str", s, 0)
Number(v) == Cell("num", <<>>, v)
NaN == Cell("nan", <<>>, 0)

\* None is the empty set, an identifier n is {n}
None == {}

MinDigits == 3

\* number of consecutive digits of s from position i on
RECURSIVE DigitRunLen(_, _)
DigitRunLen(s, i) ==
    IF i <= Len(s) /\ s[i] \in Digits THEN 1 + DigitRunLen(s, i + 1) ELSE 0

\* a search for r'(\d+)': any run of digits matches
RECURSIVE re_search_any_run(_, _)
re_search_any_run(s, i) ==
    IF i > Len(s) THEN <<>>
    ELSE IF DigitRunLen(s, i) >= 1
         THEN SubSeq(s, i, i + DigitRunLen(s, i) - 1)
         ELSE re_search_any_run(s, i + 1)

\* re.search(r'(\d{3,})', s): the match found from the leftmost start position
\* onward, greedy; <<>> when there is no match
RECURSIVE re_search(_, _)
re_search(s, i) ==
    IF i > Len(s) THEN <<>>
    ELSE IF DigitRunLen(s, i) >= MinDigits
         THEN SubSeq(s, i, i + DigitRunLen(s, i) - 1)
         ELSE re_search(s, i + 1)

extract_station_number(x) ==
    IF x.kind /= "str" THEN None
    ELSE LET cleaned_string == strip(x.s)
             match == re_search(cleaned_string, 1)
         IN  IF match /= <<>> THEN {int(match)} ELSE None

\* os.path.splitext on a base name: split at the last dot unless only dots
\* come before it
LastDot(p) == IF \E i \in 1..Len(p) : p[i] = "."
              THEN CHOOSE i \in 1..Len(p) : p[i] = "." /\ \A j \in (i + 1)..Len(p) : p[j] /= "."
              ELSE 0

splitext(p) ==
    LET dotIndex == LastDot(p)
    IN  IF dotIndex > 0 /\ \E k \in 1..(dotIndex - 1) : p[k] /= "."
        THEN <<SubSeq(p, 1, dotIndex - 1), SubSeq(p, dotIndex, Len(p))>>
        ELSE <<p, <<>>>>

\* the name searched for a digit run instead of matched whole
station_number_by_search(name) == extract_station_number(Text(splitext(name)[1]))

\* lines 75-82: the station number of a satellite file, None when the file is
\* skipped for its name
station_number_of(name) ==
    LET station_number_str == strip(splitext(name)[1])
    IN  IF ~isdigit(station_number_str) THEN None ELSE {int(station_number_str)}

\* what glob returns for '*.csv' and '*.xlsx': names with one of the two
\* extensions that do not start with a dot
Extensions == {<<".", "c", "s", "v">>, <<".", "x", "l", "s", "x">>}

GlobNames(n) ==
    {s \o e : s \in {t \in StringsUpTo(n, NameAlphabet) : t /= <<>> /\ t[1] /= "."},
              e \in Extensions}

FileCells == {Text(s) : s \in StringsUpTo(MaxLen, Alphabet)} \cup {NaN, Number(806)}

-----------------------------------------------------------------------------
(* Floats *)

\* A float is <<n, d>>: n/d in lowest terms with d > 0, or nan when d = 0
nan == <<0, 0>>
isna(x) == x[2] = 0

Abs(n) == IF n < 0 THEN -n ELSE n

RECURSIVE GCD(_, _)
GCD(a, b) == IF b = 0 THEN a ELSE GCD(b, a % b)

Float(n, d) ==
    IF d = 0 THEN nan
    ELSE LET g == GCD(Abs(n), Abs(d))
         IN  IF d < 0 THEN <<(-n) \div g, (-d) \div g>> ELSE <<n \div g, d \div g>>

Whole(n) == <<n, 1>>

\* x + y and x / y for y /= 0; nan operands give nan
add(x, y) == IF isna(x) \/ isna(y) THEN nan ELSE Float(x[1] * y[2] + y[1] * x[2], x[2] * y[2])
truediv(x, y) == IF isna(x) \/ isna(y) THEN nan ELSE Float(x[1] * y[2], x[2] * y[1])
less(x, y) == x[1] * y[2] < y[1] * x[2]

RECURSIVE sum(_)
sum(xs) == IF xs = <<>> THEN Whole(0) ELSE add(Head(xs), sum(Tail(xs)))

\* Series.mean() of a non-empty series without nan
mean(xs) == truediv(sum(xs), Whole(Len(xs)))

\* the distinct non-nan values of xs in ascending order: the group keys of
\* groupby (sort=True, dropna=True)
RECURSIVE sorted(_)
sorted(S) ==
    IF S = {} THEN <<>>
    ELSE LET m == CHOOSE x \in S : \A y \in S : ~less(y, x)
         IN  <<m>> \o sorted(S \ {m})

group_keys(xs) == sorted({xs[i] : i \in 1..Len(xs)} \ {nan})

\* one column of a frame, as a series
Column(frame, col) == [i \in 1..Len(frame) |-> frame[i][col]]

-----------------------------------------------------------------------------
(* Yearly averages of one satellite table, lines 100-118 *)

\* to_numeric with the unparsable cells filled with 0 instead of nan
to_numeric_fill_zero(c) ==
    CASE c.kind = "num" -> Whole(c.v)
      [] c.kind = "str" -> IF isdigit(c.s) THEN Whole(int(c.s)) ELSE Whole(0)
      [] OTHER -> Whole(0)

\* pd.to_numeric(errors='coerce') of one cell: a number is kept, text that is
\* a numeral is parsed, anything else becomes nan.  The text cells drawn are
\* unsigned integer numerals or contain no digit at all.
to_numeric(c) ==
    CASE c.kind = "num" -> Whole(c.v)
      [] c.kind = "str" -> IF isdigit(c.s) THEN Whole(int(c.s)) ELSE nan
      [] OTHER -> nan

\* lines 101-104: the rows whose PRECTOTCORR is a number, as numbers
clean(frame) ==
    LET coerced == [i \in 1..Len(frame) |->
                       [YEAR |-> frame[i].YEAR, PRECTOTCORR |-> to_numeric(frame[i].PRECTOTCORR)]]
    IN  SelectSeq(coerced, LAMBDA row : ~isna(row.PRECTOTCORR))

\* lines 112-118: one row per YEAR group with the group's mean
groupby_year_mean(frame, station_number) ==
    LET keys == group_keys(Column(frame, "YEAR"))
    IN  [k \in 1..Len(keys) |->
            [Station |-> station_number,
             Year |-> keys[k],
             Satellite |-> mean(Column(SelectSeq(frame, LAMBDA row : row.YEAR = keys[k]),
                                       "PRECTOTCORR"))]]

-----------------------------------------------------------------------------
(* Inputs of a run *)

\* the satellite directory: names glob can return
Csv(stem) == stem \o <<".", "c", "s", "v">>
Xlsx(stem) == stem \o <<".", "x", "l", "s", "x">>
IsCsv(name) == SubSeq(name, Len(name) - 3, Len(name)) = <<".", "c", "s", "v">>

SatelliteNames ==
    {Csv(<<"8", "0", "6">>), Xlsx(<<"8", "0", "6">>), Csv(<<"6", "6", "0">>), Csv(<<"a">>)}

SatelliteYears == {Whole(2019), Whole(2020), nan}
SatelliteCells == {Number(0), Number(2), NaN}

SeqsUpTo(S, n) == UNION {[1..k -> S] : k \in 0..n}

SatelliteTables(n) == SeqsUpTo([YEAR : SatelliteYears, PRECTOTCORR : SatelliteCells], n)

\* a file is unreadable, lacks a required column, or holds a table
SatelliteFiles(n) ==
    [name : SatelliteNames, content : {"unreadable", "missing column"}, rows : {<<>>}]
    \cup [name : SatelliteNames, content : {"table"}, rows : SatelliteTables(n)]

\* glob.glob('*.csv') + glob.glob('*.xlsx'): distinct names, every csv before
\* every xlsx
Directories ==
    {fs \in SeqsUpTo(SatelliteFiles(MaxSatRows), MaxFiles) :
        /\ \A a, b \in 1..Len(fs) : a /= b => fs[a].name /= fs[b].name
        /\ \A a, b \in 1..Len(fs) : a < b /\ IsCsv(fs[b].name) => IsCsv(fs[a].name)}

ObservedFileCells ==
    {Text(<<"a", "8", "0", "6">>), Text(<<"6", "6", "0", " ">>), Text(<<"a", "6", "8">>), NaN}
ObservedYears == {Whole(2019), Whole(2020), Float(4039, 2)}
ObservedCells == {Number(4), Number(6), Text(<<"a">>)}

ObservedTables ==
    SeqsUpTo([File : ObservedFileCells, Year : ObservedYears, Average : ObservedCells],
             MaxObsRows)

Outputs == {"satellite_yearly_averages", "yearly_correction_factors",
            "grand_correction_factors"}

-----------------------------------------------------------------------------
(* Task 1: calculate_satellite_averages *)

Halt(why) == pc' = "halted" /\ halted' = why

\* lines 60-68, and main's lines 209-211 when nothing was found
Glob ==
    /\ pc = "t1_glob"
    /\ \E found \in Directories :
          /\ all_files' = found
          /\ IF found = <<>>
             THEN Halt("satellite")
             ELSE pc' = "t1_loop" /\ UNCHANGED halted
    /\ file_index' = 1
    /\ UNCHANGED <<xvars, written, log, all_station_data, final_df, df, mainvars>>

\* the table processed without the emptiness check of line 107
process_table_unchecked(rows, station_number) ==
    [outcome |-> "ok", frames |-> <<groupby_year_mean(clean(rows), station_number)>>]

\* lines 100-120 for a readable table with the required columns
process_table(rows, station_number) ==
    LET cleaned == clean(rows)
    IN  IF cleaned = <<>>
        THEN [outcome |-> "no valid data", frames |-> <<>>]
        ELSE [outcome |-> "ok", frames |-> <<groupby_year_mean(cleaned, station_number)>>]

\* lines 73-123: the body of the loop for one file
process_file(file) ==
    LET station_number == station_number_of(file.name)
    IN  IF station_number = None THEN [outcome |-> "non-numeric name", frames |-> <<>>]
        ELSE IF file.content = "unreadable" THEN [outcome |-> "error", frames |-> <<>>]
        ELSE IF file.content = "missing column"
             THEN [outcome |-> "missing column", frames |-> <<>>]
        ELSE process_table(file.rows, CHOOSE n \in station_number : TRUE)

\* one iteration of the loop of line 72
ProcessFile ==
    /\ pc = "t1_loop"
    /\ file_index <= Len(all_files)
    /\ LET done == process_file(all_files[file_index])
       IN  /\ log' = Append(log, done.outcome)
           /\ all_station_data' = all_station_data \o done.frames
    /\ file_index' = file_index + 1
    /\ UNCHANGED <<xvars, pc, halted, written, all_files, final_df, df, mainvars>>

RECURSIVE concat(_)
concat(frames) == IF frames = <<>> THEN <<>> ELSE Head(frames) \o concat(Tail(frames))

\* lines 125-133, and main's lines 209-211 when no frame was collected
Concat ==
    /\ pc = "t1_loop"
    /\ file_index > Len(all_files)
    /\ IF all_station_data = <<>>
       THEN Halt("satellite") /\ UNCHANGED final_df
       ELSE /\ final_df' = concat(all_station_data)
            /\ pc' = "t1_save"
            /\ UNCHANGED halted
    /\ UNCHANGED <<xvars, written, all_files, file_index, log, all_station_data, df, mainvars>>

\* a save whose failure is ignored
returned_despite_failure(saved, frame) == frame

\* lines 136-139: the frame is returned only if it was saved
returned_after_save(saved, frame) == IF saved THEN frame ELSE <<>>

\* lines 136-139 and main's lines 208-211: the table is saved or saving fails;
\* main halts on an empty frame.  The locals of the function end with it.
SaveSatellite ==
    /\ pc = "t1_save"
    /\ \E saved \in BOOLEAN :
          /\ written' = IF saved THEN written \cup {"satellite_yearly_averages"} ELSE written
          /\ df_satellite' = returned_after_save(saved, final_df)
          /\ IF df_satellite' = <<>>
             THEN Halt(IF saved THEN "satellite" ELSE "save")
             ELSE pc' = "t2_find" /\ UNCHANGED halted
    /\ all_files' = <<>>
    /\ file_index' = 1
    /\ log' = <<>>
    /\ all_station_data' = <<>>
    /\ final_df' = <<>>
    /\ UNCHANGED <<xvars, df, df_observed, df_merged, df_grand_factor>>

-----------------------------------------------------------------------------
(* Task 2: read_observed_data *)

\* main's lines 220-233: which of the two observed files exists
FindObserved ==
    /\ pc = "t2_find"
    /\ \E csv_exists, xlsx_exists \in BOOLEAN :
          IF ~csv_exists /\ ~xlsx_exists
          THEN Halt("observed file absent")
          ELSE pc' = "t2_read" /\ UNCHANGED halted
    /\ UNCHANGED <<xvars, written, satvars, df, mainvars>>

\* lines 149-161: the table is read; a read that raises, an unsupported type
\* or a missing column ends in line 194 or 159 with an empty frame, on which
\* main halts (lines 236-238)
LoadObserved ==
    /\ pc = "t2_read"
    /\ \/ /\ Halt("observed")
          /\ UNCHANGED df
       \/ /\ \E table \in ObservedTables : df' = table
          /\ pc' = "t2_extract"
          /\ UNCHANGED halted
    /\ UNCHANGED <<xvars, written, satvars, mainvars>>

\* lines 175-184: the rows with the station number their 'File' cell yields,
\* without those that yield none
with_station_number(frame) ==
    LET numbered == [k \in 1..Len(frame) |->
                        [Station |-> extract_station_number(frame[k].File),
                         Year |-> frame[k].Year,
                         Observed |-> frame[k].Average]]
    IN  SelectSeq(numbered, LAMBDA row : row.Station /= None)

\* the projection that keeps only the first row of each (station, year)
normalize_drop_duplicates(frame) ==
    LET kept == with_station_number(frame)
        marked == [k \in 1..Len(kept) |->
                      [row |-> kept[k],
                       repeated |-> \E j \in 1..(k - 1) :
                                       /\ kept[j].Station = kept[k].Station
                                       /\ kept[j].Year = kept[k].Year]]
        firsts == SelectSeq(marked, LAMBDA m : ~m.repeated)
    IN  [k \in 1..Len(firsts) |->
            [Station |-> CHOOSE n \in firsts[k].row.Station : TRUE,
             Year |-> firsts[k].row.Year,
             Observed |-> firsts[k].row.Observed]]

\* lines 175-188: rows with a station number, projected and renamed
normalize(frame) ==
    LET kept == with_station_number(frame)
    IN  [k \in 1..Len(kept) |->
            [Station |-> CHOOSE n \in kept[k].Station : TRUE,
             Year |-> kept[k].Year,
             Observed |-> kept[k].Observed]]

NormalizeObserved ==
    /\ pc = "t2_extract"
    /\ df_observed' = normalize(df)
    /\ pc' = "t2_return"
    /\ UNCHANGED <<xvars, halted, written, satvars, df, df_satellite, df_merged,
                   df_grand_factor>>

\* line 190 and main's lines 235-238
ReturnObserved ==
    /\ pc = "t2_return"
    /\ df' = <<>>
    /\ IF df_observed = <<>>
       THEN Halt("observed")
       ELSE pc' = "t3_merge" /\ UNCHANGED halted
    /\ UNCHANGED <<xvars, written, satvars, mainvars>>

-----------------------------------------------------------------------------
(* Task 3: merge and yearly correction factors *)

\* Series.astype('Int64') succeeds on whole numbers and nan, raises otherwise
castable(frame) == \A k \in 1..Len(frame) : frame[k].Year[2] \in {0, 1}

\* a merge that keeps the first match only
matches_first(l, right) ==
    LET same == SelectSeq(right, LAMBDA r : r.Station = l.Station /\ r.Year = l.Year)
    IN  IF same = <<>> THEN <<>>
        ELSE <<[Station |-> l.Station, Year |-> l.Year,
                Observed |-> l.Observed, Satellite |-> same[1].Satellite]>>

\* pd.merge(left, right, on=['Station Number', 'Year'], how='inner'): the rows
\* of left in order, each with its matches in right in order
matches(l, right) ==
    LET same == SelectSeq(right, LAMBDA r : r.Station = l.Station /\ r.Year = l.Year)
    IN  [k \in 1..Len(same) |->
            [Station |-> l.Station, Year |-> l.Year,
             Observed |-> l.Observed, Satellite |-> same[k].Satellite]]

merge(left, right) == concat([k \in 1..Len(left) |-> matches(left[k], right)])

\* lines 250-262
Merge ==
    /\ pc = "t3_merge"
    /\ IF ~castable(df_observed) \/ ~castable(df_satellite)
       THEN pc' = "crashed" /\ UNCHANGED <<halted, df_merged>>
       ELSE /\ df_merged' = merge(df_observed, df_satellite)
            /\ IF df_merged' = <<>>
               THEN Halt("join")
               ELSE pc' = "t3_ratio" /\ UNCHANGED halted
    /\ UNCHANGED <<xvars, written, satvars, df, df_satellite, df_observed, df_grand_factor>>

\* a number cell as a float; dividing text raises TypeError
divisible(c) == c.kind /= "str"
as_float(c) == IF c.kind = "num" THEN Whole(c.v) ELSE nan

\* a factor of 0 for a zero satellite average
correction_factor_zero_fill(row) ==
    IF row.Satellite /= Whole(0) THEN truediv(as_float(row.Observed), row.Satellite)
    ELSE Whole(0)

\* the lambda of line 267
correction_factor(row) ==
    IF row.Satellite /= Whole(0) THEN truediv(as_float(row.Observed), row.Satellite)
    ELSE nan

lambda_raises(row) == row.Satellite /= Whole(0) /\ ~divisible(row.Observed)

\* lines 266-273
ComputeFactors ==
    /\ pc = "t3_ratio"
    /\ IF \E k \in 1..Len(df_merged) : lambda_raises(df_merged[k])
       THEN pc' = "crashed" /\ UNCHANGED <<halted, written, df_merged>>
       ELSE /\ df_merged' =
                 [k \in 1..Len(df_merged) |->
                     [Station |-> df_merged[k].Station, Year |-> df_merged[k].Year,
                      Observed |-> df_merged[k].Observed,
                      Satellite |-> df_merged[k].Satellite,
                      Factor |-> correction_factor(df_merged[k])]]
            /\ \E saved \in BOOLEAN :
                  IF saved
                  THEN /\ written' = written \cup {"yearly_correction_factors"}
                       /\ pc' = "t4_grand" /\ UNCHANGED halted
                  ELSE Halt("save") /\ UNCHANGED written
    /\ UNCHANGED <<xvars, satvars, df, df_satellite, df_observed, df_grand_factor>>

-----------------------------------------------------------------------------
(* Task 4: grand correction factors *)

RECURSIVE sorted_ints(_)
sorted_ints(S) ==
    IF S = {} THEN <<>>
    ELSE LET m == CHOOSE x \in S : \A y \in S : x <= y
         IN  <<m>> \o sorted_ints(S \ {m})

\* no row dropped: an undefined factor stays in its group
keep_all_factors(frame) == frame

\* dropna(subset=['Correction Factor'])
dropna_factor(frame) == SelectSeq(frame, LAMBDA row : ~isna(row.Factor))

\* line 285: one row per station with the mean of its factors
groupby_station_mean(frame) ==
    LET keys == sorted_ints({frame[k].Station : k \in 1..Len(frame)})
    IN  [k \in 1..Len(keys) |->
            [Station |-> keys[k],
             Grand |-> mean(Column(SelectSeq(frame, LAMBDA row : row.Station = keys[k]),
                                   "Factor"))]]

\* lines 279-292
GrandFactor ==
    /\ pc = "t4_grand"
    /\ LET valid == dropna_factor(df_merged)
       IN  IF valid = <<>>
           THEN Halt("no valid factor") /\ UNCHANGED <<written, df_grand_factor>>
           ELSE /\ df_grand_factor' = groupby_station_mean(valid)
                /\ \E saved \in BOOLEAN :
                      IF saved
                      THEN /\ written' = written \cup {"grand_correction_factors"}
                           /\ pc' = "done" /\ UNCHANGED halted
                      ELSE Halt("save") /\ UNCHANGED written
    /\ UNCHANGED <<xvars, satvars, df, df_satellite, df_observed, df_merged>>

-----------------------------------------------------------------------------
(* The run of main() *)

NoExtraction ==
    /\ xpc = "off"
    /\ file_name_string = NaN
    /\ filename = <<>>
    /\ free_id = None
    /\ name_id = None
    /\ name_free_id = None

Init ==
    /\ NoExtraction
    /\ pc = "t1_glob"
    /\ halted = ""
    /\ written = {}
    /\ all_files = <<>>
    /\ file_index = 1
    /\ log = <<>>
    /\ all_station_data = <<>>
    /\ final_df = <<>>
    /\ df = <<>>
    /\ df_satellite = <<>>
    /\ df_observed = <<>>
    /\ df_merged = <<>>
    /\ df_grand_factor = <<>>

Next ==
    \/ Glob
    \/ ProcessFile
    \/ Concat
    \/ SaveSatellite
    \/ FindObserved
    \/ LoadObserved
    \/ NormalizeObserved
    \/ ReturnObserved
    \/ Merge
    \/ ComputeFactors
    \/ GrandFactor

Spec == Init /\ [][Next]_vars

-----------------------------------------------------------------------------
(* The loop body applied to one file with a larger table *)

AveragedCells == {Number(2), Number(4), Text(<<"6">>), Text(<<"a">>), NaN}

AveragedTables ==
    SeqsUpTo([YEAR : SatelliteYears, PRECTOTCORR : AveragedCells], MaxTableRows)

InitAverage ==
    /\ NoExtraction
    /\ pc = "t1_loop"
    /\ halted = ""
    /\ written = {}
    /\ \E rows \in AveragedTables :
          all_files = <<[name |-> Csv(<<"8", "0", "6">>), content |-> "table", rows |-> rows]>>
    /\ file_index = 1
    /\ log = <<>>
    /\ all_station_data = <<>>
    /\ final_df = <<>>
    /\ df = <<>>
    /\ df_satellite = <<>>
    /\ df_observed = <<>>
    /\ df_merged = <<>>
    /\ df_grand_factor = <<>>

NextAverage == ProcessFile

SpecAverage == InitAverage /\ [][NextAverage]_vars

-----------------------------------------------------------------------------
(* Extraction applied to one drawn input *)

InitExtract ==
    /\ xpc = "in"
    /\ file_name_string = NaN
    /\ filename = <<>>
    /\ free_id = None
    /\ name_id = None
    /\ name_free_id = None
    /\ pc = "off"
    /\ halted = ""
    /\ written = {}
    /\ all_files = <<>>
    /\ file_index = 1
    /\ log = <<>>
    /\ all_station_data = <<>>
    /\ final_df = <<>>
    /\ df = <<>>
    /\ df_satellite = <<>>
    /\ df_observed = <<>>
    /\ df_merged = <<>>
    /\ df_grand_factor = <<>>

\* df['File'].apply(extract_station_number), one cell
ExtractCell ==
    /\ xpc = "in"
    /\ \E x \in FileCells :
          /\ file_name_string' = x
          /\ free_id' = extract_station_number(x)
    /\ xpc' = "cell"
    /\ UNCHANGED <<filename, name_id, name_free_id, pc, halted, written, satvars, df, mainvars>>

\* lines 75-82 on one globbed file, and the free-text rule on the same name
ExtractName ==
    /\ xpc = "in"
    /\ \E f \in GlobNames(MaxStem) :
          /\ filename' = f
          /\ name_id' = station_number_of(f)
          /\ name_free_id' = extract_station_number(Text(f))
    /\ xpc' = "name"
    /\ UNCHANGED <<file_name_string, free_id, pc, halted, written, satvars, df, mainvars>>

NextExtract == ExtractCell \/ ExtractName

SpecExtract == InitExtract /\ [][NextExtract]_vars

-----------------------------------------------------------------------------
(* Properties of the identifier extraction *)

\* the digit string read as a decimal numeral
RECURSIVE DecimalValue(_)
DecimalValue(s) ==
    IF s = <<>> THEN 0
    ELSE LET Pow10[k \in 0..Len(s)] == IF k = 0 THEN 1 ELSE 10 * Pow10[k - 1]
         IN  DigitValue(Head(s)) * Pow10[Len(s) - 1] + DecimalValue(Tail(s))

\* <<i, j>> delimits a run of digits of s that cannot be extended either way
IsMaximalRun(s, i, j) ==
    /\ i <= j
    /\ \A k \in i..j : s[k] \in Digits
    /\ i = 1 \/ s[i - 1] \notin Digits
    /\ j = Len(s) \/ s[j + 1] \notin Digits

LongRuns(s) ==
    {r \in (1..Len(s)) \X (1..Len(s)) : IsMaximalRun(s, r[1], r[2]) /\ r[2] - r[1] + 1 >= 3}

FirstLongRun(s) == CHOOSE r \in LongRuns(s) : \A q \in LongRuns(s) : r[1] <= q[1]

\* s without its leading and trailing whitespace
Trimmed(s) ==
    LET inked == {i \in 1..Len(s) : s[i] \notin Whitespace}
    IN  IF inked = {} THEN <<>>
        ELSE SubSeq(s, CHOOSE i \in inked : \A k \in inked : i <= k,
                       CHOOSE j \in inked : \A k \in inked : k <= j)

\* the name without the extension glob matched it by
StemOf(name) ==
    LET e == CHOOSE x \in Extensions :
                 /\ Len(name) >= Len(x)
                 /\ SubSeq(name, Len(name) - Len(x) + 1, Len(name)) = x
    IN  SubSeq(name, 1, Len(name) - Len(e))

AllDigits(s) == s /= <<>> /\ \A i \in 1..Len(s) : s[i] \in Digits

\* C9: extract_station_number gives no identifier for a cell that is not text;
\* for text it gives the value of the leftmost maximal run of at least 3 digits,
\* and no identifier when every run of digits is shorter than 3.
C9_FirstLongRun ==
    xpc = "cell" =>
        IF file_name_string.kind /= "str" THEN free_id = None
        ELSE IF LongRuns(file_name_string.s) = {} THEN free_id = None
        ELSE LET r == FirstLongRun(file_name_string.s)
             IN  free_id = {DecimalValue(SubSeq(file_name_string.s, r[1], r[2]))}

\* 'a0806a' gives 806: a text cell whose first long run has a leading zero
C9_Witness ==
    /\ xpc = "cell"
    /\ file_name_string = Text(<<"a", "0", "8", "0", "6", "a">>)
    /\ free_id = {806}

\* the file-name rule: the whole trimmed stem is digits, else no identifier
NameRule ==
    LET t == Trimmed(StemOf(filename))
    IN  name_id = IF AllDigits(t) THEN {DecimalValue(t)} ELSE None

\* C10 as stated: the file-name rule, and every accepted name gets the same
\* identifier from the free-text rule.
C10_Original ==
    xpc = "name" => /\ NameRule
                    /\ name_id /= None => name_free_id = name_id

\* C10 amended: the file-name rule; an accepted name of at least 3 digits gets
\* the same identifier from the free-text rule, an accepted name of 1 or 2
\* digits gets none from it.
C10_StricterFromThreeDigits ==
    xpc = "name" =>
        /\ NameRule
        /\ name_id /= None =>
              IF Len(Trimmed(StemOf(filename))) >= 3
              THEN name_free_id = name_id
              ELSE name_free_id = None

\* '806.csv' gives 806 under both rules
C10_Witness ==
    /\ xpc = "name"
    /\ filename = <<"8", "0", "6", ".", "c", "s", "v">>
    /\ name_id = {806}
    /\ name_free_id = {806}

-----------------------------------------------------------------------------
(* Properties of the yearly averaging and of the satellite loop *)

Last(s) == s[Len(s)]

\* a cell holds a numeric measurement: a number, or text that is a numeral
IsNumeric(c) == c.kind = "num" \/ (c.kind = "str" /\ AllDigits(c.s))
NumericValue(c) == IF c.kind = "num" THEN c.v ELSE DecimalValue(c.s)

RECURSIVE TotalOf(_, _)
TotalOf(rows, members) ==
    IF members = {} THEN 0
    ELSE LET k == CHOOSE m \in members : TRUE
         IN  NumericValue(rows[k].PRECTOTCORR) + TotalOf(rows, members \ {k})

\* recs holds one record per year that has a row of rows with a numeric
\* measurement, and its mean is the total of those rows over their number
IsYearlyMeansOf(recs, rows) ==
    LET valid == {k \in 1..Len(rows) : IsNumeric(rows[k].PRECTOTCORR)}
        years == {rows[k].YEAR : k \in valid} \ {nan}
    IN  /\ {recs[k].Year : k \in 1..Len(recs)} = years
        /\ Len(recs) = Cardinality(years)
        /\ \A k \in 1..Len(recs) :
              LET members == {j \in valid : rows[j].YEAR = recs[k].Year}
                  m == recs[k].Satellite
              IN  /\ m[2] > 0
                  /\ m[1] * Cardinality(members) = m[2] * TotalOf(rows, members)

\* C4: the frame appended for a table has exactly one record per year value
\* with a numeric measurement, whose mean is taken over exactly the rows of that
\* year with a numeric measurement; a year with none, and a table with none,
\* gives no record.  (A missing YEAR is no year value: groupby drops it.)
C4_YearlyMeans ==
    (pc = "t1_loop" /\ file_index > 1) =>
        LET file == all_files[file_index - 1]
            recs == IF Last(log) = "ok" THEN Last(all_station_data) ELSE <<>>
        IN  (file.content = "table" /\ Last(log) \in {"ok", "no valid data"}) =>
                IsYearlyMeansOf(recs, file.rows)

\* rows (2019, 2), (2019, 'a'), (2019, 4) give the one record (2019, 3)
C4_Witness ==
    /\ pc = "t1_loop"
    /\ file_index = 2
    /\ all_files[1].rows =
          <<[YEAR |-> Whole(2019), PRECTOTCORR |-> Number(2)],
            [YEAR |-> Whole(2019), PRECTOTCORR |-> Text(<<"a">>)],
            [YEAR |-> Whole(2019), PRECTOTCORR |-> Number(4)]>>
    /\ all_station_data =
          <<<<[Station |-> 806, Year |-> Whole(2019), Satellite |-> Whole(3)]>>>>

\* a file the loop does not skip: numeric name, readable table with the
\* required columns, at least one numeric measurement
Accepted(file) ==
    /\ AllDigits(Trimmed(StemOf(file.name)))
    /\ file.content = "table"
    /\ \E k \in 1..Len(file.rows) : IsNumeric(file.rows[k].PRECTOTCORR)

RECURSIVE TotalLen(_)
TotalLen(frames) == IF frames = <<>> THEN 0 ELSE Len(Head(frames)) + TotalLen(Tail(frames))

\* C5: when the loop is over every file has been processed; the frames
\* collected are those of the files not skipped, in order, each the yearly
\* means of its file tagged with the station number of the file's name; and
\* the concatenated corpus is these frames one after the other.
C5_SkippedFilesOnly ==
    (pc \in {"t1_loop", "t1_save"} /\ file_index > Len(all_files)) =>
        LET good == SelectSeq(all_files, Accepted)
        IN  /\ Len(log) = Len(all_files)
            /\ \A k \in 1..Len(all_files) : (log[k] = "ok") <=> Accepted(all_files[k])
            /\ Len(all_station_data) = Len(good)
            /\ \A k \in 1..Len(good) :
                  /\ IsYearlyMeansOf(all_station_data[k], good[k].rows)
                  /\ \A j \in 1..Len(all_station_data[k]) :
                        all_station_data[k][j].Station =
                            DecimalValue(Trimmed(StemOf(good[k].name)))
            /\ pc = "t1_save" =>
                  /\ Len(final_df) = TotalLen(all_station_data)
                  /\ \A k \in 1..Len(all_station_data) :
                        \A j \in 1..Len(all_station_data[k]) :
                            final_df[TotalLen(SubSeq(all_station_data, 1, k - 1)) + j]
                                = all_station_data[k][j]

\* an unreadable file is followed by a good one whose records form the corpus
C5_Witness ==
    /\ pc = "t1_save"
    /\ log = <<"error", "ok">>
    /\ Len(final_df) = 2

-----------------------------------------------------------------------------
(* Properties of the observed table *)

HasId(c) == c.kind = "str" /\ LongRuns(c.s) /= {}
IdOf(c) == LET r == FirstLongRun(c.s) IN DecimalValue(SubSeq(c.s, r[1], r[2]))

\* C8: the normalizer keeps exactly the rows whose 'File' cell yields a
\* station id, once per source row and in order, as (station, year, observed);
\* dropping rows does not halt the run while a row is left.
C8_RowsWithIdKept ==
    /\ pc = "t2_return" =>
          LET kept == {k \in 1..Len(df) : HasId(df[k].File)}
          IN  /\ Len(df_observed) = Cardinality(kept)
              /\ \A k \in kept :
                    LET j == Cardinality({m \in kept : m <= k})
                    IN  df_observed[j] = [Station |-> IdOf(df[k].File),
                                          Year |-> df[k].Year,
                                          Observed |-> df[k].Average]
    /\ (pc = "halted" /\ halted = "observed") => df_observed = <<>>

\* of two rows the one without text in 'File' is dropped, the other is kept
C8_Witness ==
    /\ pc = "t2_return"
    /\ Len(df) = 2
    /\ df[1].File = NaN
    /\ df_observed = <<[Station |-> 806, Year |-> df[2].Year, Observed |-> df[2].Average]>>

-----------------------------------------------------------------------------
(* Properties of the merge, the factors and the grand factors *)

\* the merge has run
Merged == pc \in {"t3_ratio", "t4_grand", "done"} \/ halted \in {"join", "no valid factor"}

\* the factors have been computed
FactorsComputed ==
    \/ pc \in {"t4_grand", "done"}
    \/ pc = "halted" /\ halted \in {"no valid factor", "save"} /\ df_merged /= <<>>

Key(row) == <<row.Station, row.Year>>
Keys(frame) == {Key(frame[k]) : k \in 1..Len(frame)}

\* the pairs (observed row, satellite row) with equal station and year
Pairs ==
    {p \in (1..Len(df_observed)) \X (1..Len(df_satellite)) :
        Key(df_observed[p[1]]) = Key(df_satellite[p[2]])}

Joined(p) == <<df_observed[p[1]].Station, df_observed[p[1]].Year,
               df_observed[p[1]].Observed, df_satellite[p[2]].Satellite>>

MergedTuple(row) == <<row.Station, row.Year, row.Observed, row.Satellite>>

\* C1: the merged table holds one row per pair of an observed and a satellite
\* record with equal (station, year) and nothing else; a key is in it exactly
\* if it is in both corpora.
C1_InnerJoin ==
    Merged =>
        /\ Len(df_merged) = Cardinality(Pairs)
        /\ \A p \in Pairs :
              Cardinality({k \in 1..Len(df_merged) : MergedTuple(df_merged[k]) = Joined(p)})
                  = Cardinality({q \in Pairs : Joined(q) = Joined(p)})
        /\ Keys(df_merged) = Keys(df_observed) \cap Keys(df_satellite)

\* two observed rows and two satellite records of one key give four rows
C1_Witness ==
    /\ pc = "t3_ratio"
    /\ Len(df_merged) = 4
    /\ Cardinality(Keys(df_merged)) = 1

\* C2: a merged row with a nonzero satellite mean has the factor
\* observed / satellite; one with a zero satellite mean has the undefined
\* marker, never 0, stays in the table, and never stops the run.
C2_FactorOrUndefined ==
    /\ FactorsComputed =>
          /\ Len(df_merged) = Cardinality(Pairs)
          /\ \A k \in 1..Len(df_merged) :
                LET row == df_merged[k]
                IN  IF row.Satellite = Whole(0) THEN row.Factor = nan /\ row.Factor /= Whole(0)
                    ELSE IF row.Observed.kind = "num"
                         THEN /\ row.Factor[2] > 0
                              /\ row.Factor[1] * row.Satellite[1]
                                    = row.Factor[2] * row.Observed.v * row.Satellite[2]
                         ELSE row.Factor = nan
    /\ (pc = "t4_grand") => "yearly_correction_factors" \in written
    /\ (pc = "crashed" /\ df_merged /= <<>>) =>
          \E k \in 1..Len(df_merged) :
              df_merged[k].Satellite /= Whole(0) /\ df_merged[k].Observed.kind = "str"

\* a row with a zero satellite mean and a text observed mean is in the saved
\* table with the undefined marker
C2_Witness ==
    /\ pc = "t4_grand"
    /\ \E k \in 1..Len(df_merged) :
          /\ df_merged[k].Satellite = Whole(0)
          /\ df_merged[k].Observed.kind = "str"
          /\ df_merged[k].Factor = nan
    /\ \E k \in 1..Len(df_merged) : df_merged[k].Factor = Whole(3)

RECURSIVE DenominatorProduct(_, _)
DenominatorProduct(frame, members) ==
    IF members = {} THEN 1
    ELSE LET k == CHOOSE m \in members : TRUE
         IN  frame[k].Factor[2] * DenominatorProduct(frame, members \ {k})

RECURSIVE ScaledTotal(_, _, _)
ScaledTotal(frame, members, scale) ==
    IF members = {} THEN 0
    ELSE LET k == CHOOSE m \in members : TRUE
         IN  frame[k].Factor[1] * (scale \div frame[k].Factor[2])
                 + ScaledTotal(frame, members \ {k}, scale)

\* the merged rows of station s with a defined factor
Defined(s) == {k \in 1..Len(df_merged) : df_merged[k].Station = s /\ ~isna(df_merged[k].Factor)}

GrandComputed == pc = "done" \/ (pc = "halted" /\ halted = "save" /\ df_grand_factor /= <<>>)

\* C3: the grand factor of a station is the mean of exactly its defined
\* factors, and a station without a defined factor has no grand factor row.
C3_GrandMean ==
    GrandComputed =>
        LET stations == {df_merged[k].Station : k \in 1..Len(df_merged)}
            emitted == {s \in stations : Defined(s) /= {}}
        IN  /\ {df_grand_factor[k].Station : k \in 1..Len(df_grand_factor)} = emitted
            /\ Len(df_grand_factor) = Cardinality(emitted)
            /\ \A k \in 1..Len(df_grand_factor) :
                  LET members == Defined(df_grand_factor[k].Station)
                      scale == DenominatorProduct(df_merged, members)
                      g == df_grand_factor[k].Grand
                  IN  /\ g[2] > 0
                      /\ g[1] * Cardinality(members) * scale
                            = g[2] * ScaledTotal(df_merged, members, scale)

\* factors 3, undefined, 2, undefined of station 806 give the grand factor 5/2
C3_Witness ==
    /\ pc = "done"
    /\ Len(df_merged) = 4
    /\ \E k \in 1..4 : isna(df_merged[k].Factor)
    /\ df_grand_factor = <<[Station |-> 806, Grand |-> <<5, 2>>]>>

-----------------------------------------------------------------------------
(* Properties of how a run ends *)

\* the run is over: main has returned or an unhandled error has ended it
Ended == pc \in {"done", "halted", "crashed"}

FatalPreconditions == {"satellite", "observed file absent", "observed", "join"}

\* C6 as stated: a run ends complete with the three outputs written, or halted
\* at one of the four fatal preconditions.
C6_Original ==
    Ended => \/ pc = "done" /\ written = Outputs
             \/ pc = "halted" /\ halted \in FatalPreconditions

\* C6 amended: besides these two endings a run also ends when an output table
\* cannot be saved, when no merged row has a defined factor (two tables are
\* written then), or by an unhandled error of the key cast or of the division
\* (after the first table is written); it ends in no other way.
C6_Endings ==
    Ended =>
        \/ pc = "done" /\ written = Outputs
        \/ pc = "halted" /\ halted \in FatalPreconditions
        \/ pc = "halted" /\ halted = "save" /\ written /= Outputs
        \/ /\ pc = "halted" /\ halted = "no valid factor"
           /\ written = {"satellite_yearly_averages", "yearly_correction_factors"}
        \/ pc = "crashed" /\ written = {"satellite_yearly_averages"}

\* every merged row has a zero satellite mean: the run stops with two tables
C6_Witness ==
    /\ Ended
    /\ halted = "no valid factor"
    /\ written = {"satellite_yearly_averages", "yearly_correction_factors"}

\* C7 as stated: nothing is written once the run has halted, and a run that
\* halts because the satellite directory gave no record has written nothing.
C7_Original ==
    /\ [](halted = "satellite" => written = {})
    /\ [][pc = "halted" => written' = written]_vars

====
